---- MODULE Spec2Model ----
(***************************************************************************)
(* A model of xfcesetbg (src/src/main.rs): the XFCEDesktop object, the     *)
(* image selector pick_image, topology discovery, explicit assignment      *)
(* (do_setimg), pool-sampled rotation and the command dispatch of main.    *)
(*                                                                         *)
(* Strings are sequences of tokens.  A token is a single character, or one *)
(* of the literal path pieces the program's regular expressions and        *)
(* format strings are built from.  No token is a prefix of another, so     *)
(* comparing token by token is comparing byte by byte.                     *)
(***************************************************************************)
EXTENDS Integers, Sequences, FiniteSets, TLC

VARIABLES
    pc,               \* position of the single thread of control
    outcome,          \* "running", "exit" (main returned) or "panic" (unwrap on Err)
    args,             \* parsed command line (getopts Matches)
    monitors,         \* XFCEDesktop.monitors
    workspace_count,  \* XFCEDesktop.workspace_count
    single_mode,      \* XFCEDesktop.single_mode
    single_workspace, \* XFCEDesktop.single_workspace
    prop_keys,        \* keys of the last GetAllProperties reply
    m_sws_mode,       \* reply to GetProperty(single-workspace-mode)
    m_sws_num,        \* reply to GetProperty(single-workspace-number)
    refresh_result,   \* Result of the last refresh_* call
    fs,               \* paths for which metadata() succeeds
    files,            \* list files: name -> contents, or not readable
    list_prop,        \* the xfconf property image-path (saved list file)
    image_names,      \* argument of pick_image / the loaded pool
    imgs,             \* pick_image: remaining candidates
    lsize,            \* pick_image: lsize
    probes,           \* pick_image: metadata() probes of the current call, in order
    pick_result,      \* Result of the last pick_image call
    pick_ret,         \* where pick_image returns to
    rot_wsps,         \* rotation: workspace names still to rotate (head is current)
    rot_m,            \* rotation: index of the current monitor in rotate_background
    selections,       \* rotation: pick_image calls made, with slot and result
    rot_result,       \* Result of rotate_from_saved, as do_rotate sees it
    set_list_result,  \* Result of set_list, as do_setlist sees it
    imgpairs,         \* do_setimg: the (token, (monitor, workspace)) pairs
    img_i,            \* do_setimg: index of the next pair to write
    q_m,              \* do_query: monitor index
    q_w,              \* do_query: workspace index
    calls             \* every method call sent to the configuration service

vars == << pc, outcome, args, monitors, workspace_count, single_mode,
           single_workspace, prop_keys, m_sws_mode, m_sws_num, refresh_result,
           fs, files, list_prop, image_names, imgs, lsize, probes,
           pick_result, pick_ret, rot_wsps, rot_m, selections, rot_result,
           set_list_result, imgpairs, img_i, q_m, q_w, calls >>

desktop == << monitors, workspace_count, single_mode, single_workspace >>
refreshv == << prop_keys, m_sws_mode, m_sws_num, refresh_result >>
envv == << fs, files >>
pickv == << image_names, imgs, lsize, probes, pick_result, pick_ret >>
rotv == << rot_wsps, rot_m, selections, rot_result >>
listv == << list_prop, set_list_result >>
setimgv == << imgpairs, img_i >>
queryv == << q_m, q_w >>

(***************************************************************************)
(* Strings                                                                 *)
(***************************************************************************)

\* The tokens, in ascending byte order.
TokenOrder ==
    << " ", "#", "(", "+", "-", "/backdrop/screen0/monitor", "/color-style",
       "/image-path", "/last-image", "/workspace", "0", "1", "2", "3", "4", "5", "6", "7",
       "8", "9", ":", "A", "B", "a", "b", "k", "l" >>

Rank(t) == CHOOSE i \in 1..Len(TokenOrder) : TokenOrder[i] = t

Min(a, b) == IF a < b THEN a ELSE b

\* Ord for String: s < t, byte-wise lexicographic, a proper prefix first.
RECURSIVE StrLess(_, _)
StrLess(s, t) ==
    IF t = << >> THEN FALSE
    ELSE IF s = << >> THEN TRUE
    ELSE IF Head(s) = Head(t) THEN StrLess(Tail(s), Tail(t))
    ELSE Rank(Head(s)) < Rank(Head(t))

\* Vec::sort: insertion of x into an ascending sequence, after its equals.
RECURSIVE SortInsert(_, _)
SortInsert(x, sorted) ==
    IF sorted = << >> THEN << x >>
    ELSE IF StrLess(x, Head(sorted)) THEN << x >> \o sorted
    ELSE << Head(sorted) >> \o SortInsert(x, Tail(sorted))

RECURSIVE Sort(_)
Sort(v) ==
    IF v = << >> THEN << >>
    ELSE SortInsert(Head(v), Sort(Tail(v)))

\* Vec::dedup: removes consecutive repeated elements.
RECURSIVE Dedup(_)
Dedup(v) ==
    IF Len(v) <= 1 THEN v
    ELSE IF v[1] = v[2] THEN Dedup(Tail(v))
    ELSE << v[1] >> \o Dedup(Tail(v))

\* Vec::remove(i), i 0-based.
Remove(v, i) == [ j \in 1..(Len(v) - 1) |-> IF j <= i THEN v[j] ELSE v[j + 1] ]

Range(v) == { v[i] : i \in 1..Len(v) }

\* format!("{}", n) for an unsigned integer.
Digits == << "0", "1", "2", "3", "4", "5", "6", "7", "8", "9" >>

RECURSIVE Dec(_)
Dec(n) == IF n < 10 THEN << Digits[n + 1] >>
          ELSE Dec(n \div 10) \o << Digits[(n % 10) + 1] >>

(***************************************************************************)
(* Results                                                                 *)
(***************************************************************************)

None == [ok |-> FALSE, val |-> << >>, err |-> "none"]
Ok(v) == [ok |-> TRUE, val |-> v, err |-> ""]
Err(e) == [ok |-> FALSE, val |-> << >>, err |-> e]

(***************************************************************************)
(* pick_image                                                              *)
(***************************************************************************)

\* std::fs::metadata(path).is_ok()
Metadata(path) == path \in fs

\* The candidates pick_image starts from: sorted, without repeats
\* (CandidatesMutant leaves the repeats in).
CandidatesMutant(names) == Sort(names)
Candidates(names) == Dedup(Sort(names))

\* The condition of the while loop (PickLoopGuardMutant stops one early).
PickLoopGuardMutant(n) == n > 1
PickLoopGuard(n) == n > 0

\* Entry of pick_image(names), returning to ret.
PickImageEnter(names, ret) ==
    /\ image_names' = names
    /\ imgs' = Candidates(names)
    /\ lsize' = Len(Candidates(names))
    /\ probes' = << >>
    /\ pick_result' = None
    /\ pick_ret' = ret
    /\ pc' = "pick_loop"

\* One iteration of the loop: a random index, a probe, removal or return.
PickImageProbe ==
    /\ pc = "pick_loop"
    /\ PickLoopGuard(lsize)
    /\ \E picked_idx \in 0..(lsize - 1) :
         LET path == imgs[picked_idx + 1] IN
         /\ probes' = Append(probes, [path |-> path, found |-> Metadata(path)])
         /\ IF Metadata(path)
            THEN /\ pick_result' = Ok(path)
                 /\ pc' = pick_ret
                 /\ UNCHANGED << imgs, lsize >>
            ELSE /\ imgs' = Remove(imgs, picked_idx)
                 /\ lsize' = Len(Remove(imgs, picked_idx))
                 /\ UNCHANGED << pick_result, pc >>
    /\ UNCHANGED << outcome, args, desktop, refreshv, envv, listv,
                    image_names, pick_ret, rotv, setimgv, queryv, calls >>

\* The loop ends with nothing left: Err(NoImage).
PickImageNoImage ==
    /\ pc = "pick_loop"
    /\ ~PickLoopGuard(lsize)
    /\ pick_result' = Err("NoImage")
    /\ pc' = pick_ret
    /\ UNCHANGED << outcome, args, desktop, refreshv, envv, listv,
                    image_names, imgs, lsize, probes, pick_ret, rotv, setimgv,
                    queryv, calls >>

(***************************************************************************)
(* The configuration service                                               *)
(***************************************************************************)

XFCONF_BACKDROP_LIST_PATH == << "/backdrop/screen0/monitor", "0", "/image-path" >>
XFCONF_SINGLE_WORKSPACE_MODE == << "/backdrop/single-workspace-mode" >>
XFCONF_SINGLE_WORKSPACE_NUMBER == << "/backdrop/single-workspace-number" >>

\* The property path of a slot's image, built by get_background and set_background.
BackdropPath(monitor, workspace) ==
    << "/backdrop/screen0/monitor" >> \o monitor \o << "/workspace" >>
        \o workspace \o << "/last-image" >>

\* A method call as the service sees it; ok is whether it was answered without error.
Call(method, path, value, ok) ==
    [method |-> method, path |-> path, value |-> value, ok |-> ok]

\* A reply to GetProperty: an error (absent property, timeout), a message
\* without data, or a variant of some type: a string, a boolean, or an
\* integer of one of the types as_i64 reads.
ReplyErr == [kind |-> "err", b |-> FALSE, n |-> 0]
ReplyEmpty == [kind |-> "empty", b |-> FALSE, n |-> 0]
ReplyStr == [kind |-> "str", b |-> FALSE, n |-> 0]
ReplyBool(b) == [kind |-> "bool", b |-> b, n |-> 0]
ReplyInt(n) == [kind |-> "int", b |-> FALSE, n |-> n]

(***************************************************************************)
(* refresh_monitors_and_workspaces                                         *)
(***************************************************************************)

\* The starts of a match of
\*   /backdrop/screen0/monitor(.*)/workspace(.*)/color-style
\* in key, and for a start the ends of its first group.
MonGroupEnds(key, i) ==
    { j \in (i + 1)..Len(key) :
        /\ key[j] = "/workspace"
        /\ \E k \in (j + 1)..Len(key) : key[k] = "/color-style" }

MonStarts(key) ==
    { i \in 1..Len(key) :
        key[i] = "/backdrop/screen0/monitor" /\ MonGroupEnds(key, i) # {} }

SetMin(S) == CHOOSE x \in S : \A y \in S : x <= y
SetMax(S) == CHOOSE x \in S : \A y \in S : x >= y

\* _mon_re.captures(fld).is_some()
MonIsMatch(key) == MonStarts(key) # {}

\* Group 1 of the leftmost match; (.*) is greedy.
MonCapture(key) ==
    LET i == SetMin(MonStarts(key))
        j == SetMax(MonGroupEnds(key, i))
    IN  SubSeq(key, i + 1, j - 1)

\* The captured monitor names, in the order of the keys.
RECURSIVE MonsOf(_)
MonsOf(keys) ==
    IF keys = << >> THEN << >>
    ELSE IF MonIsMatch(Head(keys))
         THEN << MonCapture(Head(keys)) >> \o MonsOf(Tail(keys))
         ELSE MonsOf(Tail(keys))

\* mons_set after sort() and dedup().
MonsSet(keys) == Dedup(Sort(MonsOf(keys)))

\* The tokens of more than one character; the others are single characters.
PathPieces ==
    { "/backdrop/screen0/monitor", "/color-style", "/image-path",
      "/last-image", "/workspace" }

\* Line 179 puts the monitor name into the pattern as it is, so the name is
\* read as a regular expression: of the tokens only "+" is an operator, one
\* or more of what precedes it.  What precedes it is one character: after a
\* path piece (and at the start of the name, after "monitor") that is the
\* piece's last letter, which is no token, so the "+" changes nothing there.
\* A "+" after a "+" repeats a repetition, which is the same repetition.
RepeatLast(atoms) ==
    IF atoms # << >> /\ atoms[Len(atoms)].t \notin PathPieces
    THEN [atoms EXCEPT ![Len(atoms)].rep = TRUE]
    ELSE atoms

RECURSIVE MonitorAtoms(_)
MonitorAtoms(monitor) ==
    IF monitor = << >> THEN << >>
    ELSE LET init == SubSeq(monitor, 1, Len(monitor) - 1)
             last == monitor[Len(monitor)]
         IN  IF last = "+" THEN RepeatLast(MonitorAtoms(init))
             ELSE Append(MonitorAtoms(init), [t |-> last, rep |-> FALSE])

\* The positions after a match of atoms that starts at position p of key.
RECURSIVE AtomsEnds(_, _, _)
AtomsEnds(atoms, key, p) ==
    IF atoms = << >> THEN { p }
    ELSE LET a == Head(atoms)
             runs == { q \in (p + 1)..(Len(key) + 1) :
                         /\ a.rep \/ q = p + 1
                         /\ \A n \in p..(q - 1) : key[n] = a.t }
         IN  UNION { AtomsEnds(Tail(atoms), key, q) : q \in runs }

\* Regex::new of line 179 is Ok: of the tokens only "(" makes the pattern one
\* that does not parse, a group that is never closed.
RegexValid(monitor) == \A i \in 1..Len(monitor) : monitor[i] # "("

\* workspaces_re.is_match(fld), for
\*   /backdrop/screen0/monitor{monitor}/workspace.*/last-image
WorkspaceIsMatch(monitor, key) ==
    \E i \in 1..Len(key) :
        /\ key[i] = "/backdrop/screen0/monitor"
        /\ \E w \in AtomsEnds(MonitorAtoms(monitor), key, i + 1) :
            /\ w <= Len(key)
            /\ key[w] = "/workspace"
            /\ \E k \in (w + 1)..Len(key) : key[k] = "/last-image"

WorkspaceCount(monitor, keys) ==
    Cardinality({ i \in 1..Len(keys) : WorkspaceIsMatch(monitor, keys[i]) })

\* new(), line 120: the connection to the session bus; its Err is the Err of
\* new(), and main panics before any call is sent.
NewConnection ==
    /\ pc = "connect"
    /\ \E connected \in BOOLEAN :
        IF connected
        THEN pc' = "new" /\ UNCHANGED outcome
        ELSE pc' = "done" /\ outcome' = "panic"
    /\ UNCHANGED << args, desktop, refreshv, envv, listv, pickv, rotv,
                    setimgv, queryv, calls >>

\* refresh_monitors_and_workspaces, for a reply drawn from replies; a reply is
\* an error of the call, a message that get1() reads no dictionary from
\* (NoData), or the sequence of the keys of the returned dictionary.  With
\* the keys, it fails when no key gives a monitor and when the first monitor
\* does not make a pattern.
RefreshMonitorsAndWorkspaces(replies) ==
    /\ pc = "new"
    /\ \E reply \in replies :
        /\ calls' = Append(calls, Call("GetAllProperties",
                                       << "/backdrop/screen0" >>, << >>,
                                       reply.err # "DBusError"))
        /\ IF ~reply.ok
           THEN /\ refresh_result' = Err(reply.err)
                /\ outcome' = "panic"
                /\ pc' = "done"
                /\ UNCHANGED << prop_keys, monitors, workspace_count >>
           ELSE /\ prop_keys' = reply.val
                /\ IF Len(MonsSet(reply.val)) <= 0
                   THEN /\ refresh_result' = Err("NoDesktopInfo")
                        /\ outcome' = "panic"
                        /\ pc' = "done"
                        /\ UNCHANGED << monitors, workspace_count >>
                   ELSE IF ~RegexValid(MonsSet(reply.val)[1])
                   THEN /\ refresh_result' = Err("RegexError")
                        /\ outcome' = "panic"
                        /\ pc' = "done"
                        /\ UNCHANGED << monitors, workspace_count >>
                   ELSE /\ monitors' = MonsSet(reply.val)
                        /\ workspace_count' =
                               WorkspaceCount(MonsSet(reply.val)[1], reply.val)
                        /\ refresh_result' = Ok(<< >>)
                        /\ pc' = "new_single"
                        /\ UNCHANGED outcome
    /\ UNCHANGED << args, single_mode, single_workspace, m_sws_mode, m_sws_num,
                    envv, listv, pickv, rotv, setimgv, queryv >>

(***************************************************************************)
(* refresh_single_workspace_info                                           *)
(***************************************************************************)

\* cast::<bool>(v): Some for a boolean alone.
IsBool(reply) == reply.kind = "bool"

\* RefArg::as_i64(): Some for an integer and for a boolean, which it reads as
\* 1 or 0; None for any other variant.
IsInt(reply) == reply.kind \in { "int", "bool" }
AsI64(reply) == IF reply.kind = "bool" THEN (IF reply.b THEN 1 ELSE 0) ELSE reply.n

\* Line 194: the two calls failed or not.
SwsLookupFailed(mode, num) == mode.kind = "err" \/ num.kind = "err"

\* Line 205 (ClampMutant keeps a negative number).
ClampMutant(num) == num
Clamp(num) == IF num < 0 THEN 0 ELSE num

\* The body of refresh_single_workspace_info for the two replies: the Result,
\* and the fields as they are left.
RefreshSingle(mode, num) ==
    IF SwsLookupFailed(mode, num)
    THEN [res |-> Ok(<< >>), single_mode |-> TRUE, single_workspace |-> 0]
    ELSE IF mode.kind = "empty" \/ num.kind = "empty" \/ ~IsBool(mode) \/ ~IsInt(num)
    THEN [res |-> Err("NoData"), single_mode |-> single_mode,
          single_workspace |-> single_workspace]
    ELSE [res |-> Ok(<< >>), single_mode |-> mode.b,
          single_workspace |-> Clamp(AsI64(num))]

\* The two GetProperty calls of refresh_single_workspace_info.
SwsCalls(mode, num) ==
    << Call("GetProperty", XFCONF_SINGLE_WORKSPACE_MODE, << >>, mode.kind # "err"),
       Call("GetProperty", XFCONF_SINGLE_WORKSPACE_NUMBER, << >>, num.kind # "err") >>

\* refresh_single_workspace_info as called by new(): an Err makes main panic.
NewRefreshSingle(modes, nums) ==
    /\ pc = "new_single"
    /\ \E mode \in modes, num \in nums :
        /\ m_sws_mode' = mode
        /\ m_sws_num' = num
        /\ calls' = calls \o SwsCalls(mode, num)
        /\ refresh_result' = RefreshSingle(mode, num).res
        /\ single_mode' = RefreshSingle(mode, num).single_mode
        /\ single_workspace' = RefreshSingle(mode, num).single_workspace
        /\ IF RefreshSingle(mode, num).res.ok
           THEN pc' = "main" /\ UNCHANGED outcome
           ELSE pc' = "done" /\ outcome' = "panic"
    /\ UNCHANGED << args, monitors, workspace_count, prop_keys, envv, listv,
                    pickv, rotv, setimgv, queryv >>

(***************************************************************************)
(* List files                                                              *)
(***************************************************************************)

\* str::trim for a line of spaces and other characters.
RECURSIVE TrimStart(_)
TrimStart(line) ==
    IF line # << >> /\ Head(line) = " " THEN TrimStart(Tail(line)) ELSE line

RECURSIVE TrimEnd(_)
TrimEnd(line) ==
    IF line # << >> /\ line[Len(line)] = " "
    THEN TrimEnd(SubSeq(line, 1, Len(line) - 1)) ELSE line

Trim(line) == TrimEnd(TrimStart(line))

StartsWithHash(line) == line # << >> /\ Head(line) = "#"

\* The lines of a file, trimmed, without the comment lines.
RECURSIVE ImageNames(_)
ImageNames(lines) ==
    IF lines = << >> THEN << >>
    ELSE IF StartsWithHash(Trim(Head(lines))) THEN ImageNames(Tail(lines))
    ELSE << Trim(Head(lines)) >> \o ImageNames(Tail(lines))

\* A file: whether metadata() finds it, whether it can be opened and read, its lines.
File(exists, readable, lines) ==
    [exists |-> exists, readable |-> readable, lines |-> lines]

NoFile == File(FALSE, FALSE, << >>)

FileOf(name) == IF name \in DOMAIN files THEN files[name] ELSE NoFile

\* get_image_names(_list)
GetImageNames(name) ==
    IF FileOf(name).exists /\ FileOf(name).readable
    THEN Ok(ImageNames(FileOf(name).lines))
    ELSE Err("IOError")

\* The property image-path as the service holds it.
Saved(name) == [set |-> TRUE, val |-> name]
NotSaved == [set |-> FALSE, val |-> << >>]

\* The replies to GetProperty of a property that holds a string: an error, a
\* message without data, a variant that is no string, and, when the property
\* is set, the string.
StrReplies(set) ==
    { ReplyErr, ReplyEmpty, ReplyInt(1) } \cup (IF set THEN { ReplyStr } ELSE {})

\* get1().ok_or(NoData)? and as_str().ok_or(BadType)? of get_list and
\* get_background, after a call that was answered with reply.
AsStr(reply, val) ==
    IF reply.kind = "err" THEN Err("DBusError")
    ELSE IF reply.kind = "empty" THEN Err("NoData")
    ELSE IF reply.kind # "str" THEN Err("BadType")
    ELSE Ok(val)

\* get_list(): the saved list file name.
GetList(reply) == AsStr(reply, list_prop.val)

GetListCall(reply) ==
    Call("GetProperty", XFCONF_BACKDROP_LIST_PATH, << >>, reply.kind # "err")

(***************************************************************************)
(* Slots and explicit assignment                                           *)
(***************************************************************************)

\* workspace_names()
WorkspaceNames(count) == [ x \in 1..count |-> Dec(x - 1) ]

\* all_workspaces of do_setimg: for each monitor, each workspace name.
RECURSIVE AllWorkspaces(_, _)
AllWorkspaces(mons, workspaces) ==
    IF mons = << >> THEN << >>
    ELSE [ y \in 1..Len(workspaces) |-> [m |-> Head(mons), w |-> workspaces[y]] ]
         \o AllWorkspaces(Tail(mons), workspaces)

\* str::split(":")
RECURSIVE Split(_)
Split(str) ==
    IF \A i \in 1..Len(str) : str[i] # ":" THEN << str >>
    ELSE LET i == CHOOSE i \in 1..Len(str) :
                      str[i] = ":" /\ \A j \in 1..(i - 1) : str[j] # ":"
         IN  << SubSeq(str, 1, i - 1) >> \o Split(SubSeq(str, i + 1, Len(str)))

\* [String]::join(":")
RECURSIVE Join(_)
Join(strs) ==
    IF strs = << >> THEN << >>
    ELSE IF Len(strs) = 1 THEN strs[1]
    ELSE strs[1] \o << ":" >> \o Join(Tail(strs))

\* The token zipped with slot i (1-based); CycleTokenMutant repeats the last
\* token instead of starting over.
CycleTokenMutant(tokens, i) == tokens[Min(i, Len(tokens))]
CycleToken(tokens, i) == tokens[((i - 1) % Len(tokens)) + 1]

\* How many pairs zip produces.
ZipLen(tokens, slots, repeat) ==
    IF repeat THEN Len(slots) ELSE Min(Len(tokens), Len(slots))

Zip(tokens, slots, repeat) ==
    [ i \in 1..ZipLen(tokens, slots, repeat) |->
        [img |-> IF repeat THEN CycleToken(tokens, i) ELSE tokens[i],
         m |-> slots[i].m, w |-> slots[i].w] ]

NonEmptyImg(pair) == pair.img # << >>

NonEmptyStr(str) == str # << >>

\* imgpairs of do_setimg; ImgPairsMutant drops the empty tokens before the
\* pairing, so that later tokens move up.
ImgPairsMutant(collated, repeat) ==
    Zip(IF repeat THEN Split(collated) ELSE SelectSeq(Split(collated), NonEmptyStr),
        AllWorkspaces(monitors, WorkspaceNames(workspace_count)), repeat)
ImgPairs(collated, repeat) ==
    SelectSeq(Zip(Split(collated),
                  AllWorkspaces(monitors, WorkspaceNames(workspace_count)),
                  repeat),
              NonEmptyImg)

\* set_background(monitor, workspace, image), answered or not.
SetBackgroundCall(monitor, workspace, image, answered) ==
    Call("SetProperty", BackdropPath(monitor, workspace), image, answered)

Exit == pc' = "done" /\ outcome' = "exit"

\* do_setimg up to the loop: the pairs are computed.
DoSetImg ==
    /\ pc = "setimg"
    /\ imgpairs' = ImgPairs(Join(args.free), args.r)
    /\ img_i' = 1
    /\ pc' = "setimg_loop"
    /\ UNCHANGED << outcome, args, desktop, refreshv, envv, listv, pickv,
                    rotv, queryv, calls >>

\* One iteration of the loop of do_setimg: a failed write is printed, no more.
DoSetImgWrite ==
    /\ pc = "setimg_loop"
    /\ img_i <= Len(imgpairs)
    /\ \E answered \in BOOLEAN :
        calls' = Append(calls, SetBackgroundCall(imgpairs[img_i].m,
                                   imgpairs[img_i].w, imgpairs[img_i].img, answered))
    /\ img_i' = img_i + 1
    /\ UNCHANGED << pc, outcome, args, desktop, refreshv, envv, listv,
                    pickv, rotv, imgpairs, queryv >>

DoSetImgDone ==
    /\ pc = "setimg_loop"
    /\ img_i > Len(imgpairs)
    /\ Exit
    /\ UNCHANGED << args, desktop, refreshv, envv, listv, pickv, rotv,
                    setimgv, queryv, calls >>

(***************************************************************************)
(* Pool-sampled rotation                                                   *)
(***************************************************************************)

\* The workspaces rotate_from_saved goes through (RotationWorkspacesMutant:
\* all of them in either mode).
RotationWorkspacesMutant == WorkspaceNames(workspace_count)
RotationWorkspaces ==
    IF single_mode THEN << Dec(single_workspace) >>
    ELSE WorkspaceNames(workspace_count)

\* do_rotate: rotate_from_saved up to its first rotate_background.  An Err
\* of get_list or get_image_names is printed and do_rotate returns.
RotateFromSaved ==
    /\ pc = "rotate"
    /\ \E reply \in StrReplies(list_prop.set) :
        /\ calls' = Append(calls, GetListCall(reply))
        /\ IF GetList(reply).ok /\ GetImageNames(GetList(reply).val).ok
           THEN /\ image_names' = GetImageNames(GetList(reply).val).val
                /\ rot_wsps' = RotationWorkspaces
                /\ rot_m' = 1
                /\ pc' = "rotate_background"
                /\ UNCHANGED << outcome, rot_result >>
           ELSE /\ Exit
                /\ rot_result' = IF GetList(reply).ok
                                 THEN Err("IOError") ELSE GetList(reply)
                /\ UNCHANGED << image_names, rot_wsps, rot_m >>
    /\ selections' = << >>
    /\ UNCHANGED << args, desktop, refreshv, envv, listv, imgs, lsize,
                    probes, pick_result, pick_ret, setimgv, queryv >>

\* rotate_background, head of the loop over the monitors: pick_image is called.
RotateBackgroundPick ==
    /\ pc = "rotate_background"
    /\ rot_wsps # << >>
    /\ rot_m <= Len(monitors)
    /\ PickImageEnter(image_names, "rotate_set")
    /\ UNCHANGED << outcome, args, desktop, refreshv, envv, listv, rotv,
                    setimgv, queryv, calls >>

\* What follows a failure in rotate_background: the ? operators return the
\* Err through rotate_from_saved to do_rotate, which prints it.
RotateAfterFailure(e) ==
    Exit /\ rot_result' = Err(e) /\ UNCHANGED << rot_wsps, rot_m >>

\* rotate_background after pick_image: the Err is returned, or the image is
\* written with set_background and its Err is returned.
RotateBackgroundSet ==
    /\ pc = "rotate_set"
    /\ LET slot == [m |-> monitors[rot_m], w |-> Head(rot_wsps)] IN
       IF ~pick_result.ok
       THEN /\ selections' = Append(selections,
                [m |-> slot.m, w |-> slot.w, picked |-> pick_result, written |-> FALSE])
            /\ RotateAfterFailure(pick_result.err)
            /\ UNCHANGED calls
       ELSE \E answered \in BOOLEAN :
            /\ calls' = Append(calls,
                   SetBackgroundCall(slot.m, slot.w, pick_result.val, answered))
            /\ selections' = Append(selections,
                [m |-> slot.m, w |-> slot.w, picked |-> pick_result, written |-> answered])
            /\ IF answered
               THEN /\ rot_m' = rot_m + 1
                    /\ pc' = "rotate_background"
                    /\ UNCHANGED << outcome, rot_wsps, rot_result >>
               ELSE RotateAfterFailure("DBusError")
    /\ UNCHANGED << args, desktop, refreshv, envv, listv, pickv, setimgv,
                    queryv >>

\* rotate_background returns Ok: the next workspace.
RotateBackgroundOk ==
    /\ pc = "rotate_background"
    /\ rot_wsps # << >>
    /\ rot_m > Len(monitors)
    /\ rot_wsps' = Tail(rot_wsps)
    /\ rot_m' = 1
    /\ UNCHANGED << pc, outcome, args, desktop, refreshv, envv, listv,
                    pickv, selections, rot_result, setimgv, queryv, calls >>

\* rotate_from_saved returns Ok.
RotateFromSavedOk ==
    /\ pc = "rotate_background"
    /\ rot_wsps = << >>
    /\ Exit
    /\ rot_result' = Ok(<< >>)
    /\ UNCHANGED << args, desktop, refreshv, envv, listv, pickv, rot_wsps,
                    rot_m, selections, setimgv, queryv, calls >>

(***************************************************************************)
(* do_setlist and set_list                                                 *)
(***************************************************************************)

\* set_list before pick_image: metadata(_list)? and get_image_names(_list)?
\* (SetListCheckMutant takes the lines without either check.)
SetListCheckMutant(name) == Ok(ImageNames(FileOf(name).lines))
SetListCheck(name) ==
    IF ~FileOf(name).exists THEN Err("IOError") ELSE GetImageNames(name)

\* do_setlist: do_fetch_list, then set_list up to its call of pick_image.
DoSetList ==
    /\ pc = "setlist"
    /\ \E reply \in StrReplies(list_prop.set) :
        calls' = Append(calls, GetListCall(reply))
    /\ IF SetListCheck(args.l.val).ok
       THEN /\ PickImageEnter(SetListCheck(args.l.val).val, "setlist_set")
            /\ UNCHANGED << outcome, set_list_result >>
       ELSE /\ Exit
            /\ set_list_result' = SetListCheck(args.l.val)
            /\ UNCHANGED pickv
    /\ UNCHANGED << args, desktop, refreshv, envv, list_prop, rotv, setimgv,
                    queryv >>

\* set_list after pick_image: its Err is returned, or the property is written.
\* do_setlist then rotates if asked to and set_list returned Ok.
DoSetListSet ==
    /\ pc = "setlist_set"
    /\ IF ~pick_result.ok
       THEN /\ Exit
            /\ set_list_result' = pick_result
            /\ UNCHANGED << calls, list_prop >>
       ELSE \E answered \in BOOLEAN :
            /\ calls' = Append(calls, Call("SetProperty",
                            XFCONF_BACKDROP_LIST_PATH, args.l.val, answered))
            /\ list_prop' = IF answered THEN Saved(args.l.val) ELSE list_prop
            /\ set_list_result' = IF answered THEN Ok(<< >>) ELSE Err("DBusError")
            /\ IF answered /\ args.c
               THEN pc' = "rotate" /\ UNCHANGED outcome
               ELSE Exit
    /\ UNCHANGED << args, desktop, refreshv, envv, pickv, rotv, setimgv, queryv >>

(***************************************************************************)
(* do_query                                                                *)
(***************************************************************************)

\* do_query up to its loops: do_fetch_list.
DoQuery ==
    /\ pc = "query"
    /\ \E reply \in StrReplies(list_prop.set) :
        calls' = Append(calls, GetListCall(reply))
    /\ q_m' = 1
    /\ q_w' = 0
    /\ pc' = "query_loop"
    /\ UNCHANGED << outcome, args, desktop, refreshv, envv, listv, pickv,
                    rotv, setimgv >>

\* One get_background(m, wsp).unwrap() of the inner loop: the Err of the
\* call, of get1() or of as_str() makes it panic.
DoQueryGet ==
    /\ pc = "query_loop"
    /\ q_m <= Len(monitors)
    /\ q_w < workspace_count
    /\ \E reply \in StrReplies(TRUE) :
        /\ calls' = Append(calls, Call("GetProperty",
                        BackdropPath(monitors[q_m], Dec(q_w)), << >>,
                        reply.kind # "err"))
        /\ IF AsStr(reply, << >>).ok
           THEN q_w' = q_w + 1 /\ UNCHANGED << pc, outcome >>
           ELSE pc' = "done" /\ outcome' = "panic" /\ UNCHANGED q_w
    /\ UNCHANGED << args, desktop, refreshv, envv, listv, pickv, rotv,
                    setimgv, q_m >>

\* The inner loop ends: the next monitor.
DoQueryNextMonitor ==
    /\ pc = "query_loop"
    /\ q_m <= Len(monitors)
    /\ q_w >= workspace_count
    /\ q_m' = q_m + 1
    /\ q_w' = 0
    /\ UNCHANGED << pc, outcome, args, desktop, refreshv, envv, listv,
                    pickv, rotv, setimgv, calls >>

DoQueryDone ==
    /\ pc = "query_loop"
    /\ q_m > Len(monitors)
    /\ Exit
    /\ UNCHANGED << args, desktop, refreshv, envv, listv, pickv, rotv,
                    setimgv, queryv, calls >>

(***************************************************************************)
(* do_set_backdrop_mode                                                    *)
(***************************************************************************)

\* An i64 is a sign and a magnitude; the magnitude is its decimal digits
\* without leading zeros, and zero is not negative.
I64(neg, mag) == [neg |-> neg /\ mag # << "0" >>, mag |-> mag]

IsDigit(t) == \E d \in 1..10 : Digits[d] = t

\* The value of a short text of digits.
RECURSIVE DigitsValue(_)
DigitsValue(text) ==
    IF text = << >> THEN 0
    ELSE DigitsValue(SubSeq(text, 1, Len(text) - 1)) * 10
         + ((CHOOSE d \in 1..10 : Digits[d] = text[Len(text)]) - 1)

\* Leading zeros add nothing to the value.
RECURSIVE StripZeros(_)
StripZeros(text) ==
    IF Len(text) > 1 /\ Head(text) = "0" THEN StripZeros(Tail(text)) ELSE text

\* a < b for magnitudes: the shorter is smaller, equal lengths compare digit
\* by digit.
MagLess(a, b) == Len(a) < Len(b) \/ (Len(a) = Len(b) /\ StrLess(a, b))

\* i64::MAX = 9223372036854775807 and the magnitude of i64::MIN.
I64MaxMag ==
    << "9", "2", "2", "3", "3", "7", "2", "0", "3", "6", "8", "5", "4", "7",
       "7", "5", "8", "0", "7" >>
I64MinMag ==
    << "9", "2", "2", "3", "3", "7", "2", "0", "3", "6", "8", "5", "4", "7",
       "7", "5", "8", "0", "8" >>

\* str::parse::<i64>(): an optional sign, then one digit or more; any other
\* text, and a value outside i64, is an error.
ParseI64(text) ==
    LET signed == text # << >> /\ Head(text) \in { "+", "-" }
        neg == text # << >> /\ Head(text) = "-"
        body == IF signed THEN Tail(text) ELSE text
        mag == StripZeros(body)
    IN  IF body = << >> \/ \E i \in 1..Len(body) : ~IsDigit(body[i])
        THEN Err("ParseIntError")
        ELSE IF MagLess(IF neg THEN I64MinMag ELSE I64MaxMag, mag)
        THEN Err("ParseIntError")
        ELSE Ok(I64(neg, mag))

I64MinusOne == I64(TRUE, << "1" >>)

NoNumber == [some |-> FALSE, n |-> I64(FALSE, << "0" >>)]
Some(n) == [some |-> TRUE, n |-> n]

\* wsp_idx of main: matches.opt_str("s").map(|x| x.parse::<i64>().unwrap_or(-1))
WspIdx(s) ==
    IF ~s.set THEN NoNumber
    ELSE IF ParseI64(s.val).ok THEN Some(ParseI64(s.val).val)
    ELSE Some(I64MinusOne)

\* n < 0, and n >= k for a workspace count k.
I64Negative(n) == n.neg
I64AtLeast(n, k) == ~n.neg /\ ~MagLess(n.mag, Dec(k))

\* The workspace number do_set_backdrop_mode passes to set_single_workspace_info.
ModeNumber(workspace_num) ==
    IF workspace_num.some
       /\ ~(I64Negative(workspace_num.n)
            \/ I64AtLeast(workspace_num.n, workspace_count))
    THEN workspace_num ELSE NoNumber

\* Variant(n) of the number written: n is below workspace_count there.
NumberVariant(n) == DigitsValue(n.mag)

\* The arguments main gives do_set_backdrop_mode.
ModeArg == args.s.present
NumberArg == IF args.s.present THEN ModeNumber(WspIdx(args.s)) ELSE NoNumber

\* set_single_workspace_info: the write of the mode; its Err ends
\* do_set_backdrop_mode.  Without a number and without rotation, it is all.
SetModeWriteMode ==
    /\ pc = "setmode"
    /\ \E answered \in BOOLEAN :
        /\ calls' = Append(calls, Call("SetProperty",
                        XFCONF_SINGLE_WORKSPACE_MODE, ModeArg, answered))
        /\ IF ~answered THEN Exit
           ELSE IF NumberArg.some THEN pc' = "setmode_number" /\ UNCHANGED outcome
           ELSE IF args.c THEN pc' = "setmode_refresh" /\ UNCHANGED outcome
           ELSE Exit
    /\ UNCHANGED << args, desktop, refreshv, envv, listv, pickv, rotv,
                    setimgv, queryv >>

\* set_single_workspace_info: the write of the number.
SetModeWriteNumber ==
    /\ pc = "setmode_number"
    /\ \E answered \in BOOLEAN :
        /\ calls' = Append(calls, Call("SetProperty",
                        XFCONF_SINGLE_WORKSPACE_NUMBER,
                        NumberVariant(NumberArg.n), answered))
        /\ IF answered /\ args.c
           THEN pc' = "setmode_refresh" /\ UNCHANGED outcome
           ELSE Exit
    /\ UNCHANGED << args, desktop, refreshv, envv, listv, pickv, rotv,
                    setimgv, queryv >>

\* do_set_backdrop_mode with rotate: refresh_single_workspace_info, whose Err
\* is printed, then do_rotate.
SetModeRefresh(modes, nums) ==
    /\ pc = "setmode_refresh"
    /\ \E mode \in modes, num \in nums :
        /\ m_sws_mode' = mode
        /\ m_sws_num' = num
        /\ calls' = calls \o SwsCalls(mode, num)
        /\ refresh_result' = RefreshSingle(mode, num).res
        /\ single_mode' = RefreshSingle(mode, num).single_mode
        /\ single_workspace' = RefreshSingle(mode, num).single_workspace
    /\ pc' = "rotate"
    /\ UNCHANGED << outcome, args, monitors, workspace_count, prop_keys, envv,
                    listv, pickv, rotv, setimgv, queryv >>

(***************************************************************************)
(* main                                                                    *)
(***************************************************************************)

\* An option with an argument: absent, present without one, present with one.
OptAbsent == [present |-> FALSE, set |-> FALSE, val |-> << >>]
OptFlag == [present |-> TRUE, set |-> FALSE, val |-> << >>]
Opt(val) == [present |-> TRUE, set |-> TRUE, val |-> val]

\* Where main goes after new() and opts.parse() (DispatchMutant looks at -q
\* after -s, -m and -l).
DispatchMutant ==
    IF args.bad \/ args.h THEN "done"
    ELSE IF args.s.present /\ args.m THEN "done"
    ELSE IF args.s.present
         THEN IF WspIdx(args.s) = Some(I64MinusOne) THEN "done" ELSE "setmode"
    ELSE IF args.m THEN "setmode"
    ELSE IF args.l.present THEN "setlist"
    ELSE IF args.q THEN "query"
    ELSE IF args.free # << >> THEN "setimg"
    ELSE "rotate"
Dispatch ==
    IF args.bad \/ args.h THEN "done"
    ELSE IF args.q THEN "query"
    ELSE IF args.s.present /\ args.m THEN "done"
    ELSE IF args.s.present
         THEN IF WspIdx(args.s) = Some(I64MinusOne) THEN "done" ELSE "setmode"
    ELSE IF args.m THEN "setmode"
    ELSE IF args.l.present THEN "setlist"
    ELSE IF args.free # << >> THEN "setimg"
    ELSE "rotate"

Main ==
    /\ pc = "main"
    /\ pc' = Dispatch
    /\ outcome' = IF Dispatch = "done" THEN "exit" ELSE outcome
    /\ UNCHANGED << args, desktop, refreshv, envv, listv, pickv, rotv,
                    setimgv, queryv, calls >>

(***************************************************************************)
(* Inputs                                                                  *)
(***************************************************************************)

MaxNames == 3
MaxKeys == 3
MaxLen == 5
MaxWorkspaces == 2
MaxNum == 2

\* The sequences over S of length at most n.
SeqsUpTo(S, n) == UNION { [1..k -> S] : k \in 0..n }

Injective(v) == \A i, j \in 1..Len(v) : v[i] = v[j] => i = j

\* Image paths: the empty one is what a blank line of a list file gives.
ImagePaths == { << >>, << "a" >>, << "b" >>, << "a", "b" >> }

\* Property keys a GetAllProperties reply is made of.
Key(monitor, workspace, leaf) ==
    << "/backdrop/screen0/monitor" >> \o monitor \o << "/workspace" >>
        \o workspace \o << leaf >>

KeyUniverse ==
    { Key(<< "A" >>, << "0" >>, "/color-style"),
      Key(<< "A" >>, << "1" >>, "/color-style"),
      Key(<< "B" >>, << "0" >>, "/color-style"),
      Key(<< "A", "B" >>, << "0" >>, "/color-style"),
      Key(<< "A" >>, << "0" >>, "/last-image"),
      Key(<< "A", "B" >>, << "0" >>, "/last-image"),
      Key(<< "B" >>, << "0" >>, "/last-image"),
      Key(<< "A" >>, << "0", "/workspace", "1" >>, "/color-style"),
      Key(<< "A", "+" >>, << "0" >>, "/color-style"),
      Key(<< "A", "+" >>, << "0" >>, "/last-image"),
      Key(<< "A", "A" >>, << "0" >>, "/last-image"),
      Key(<< "(" >>, << "0" >>, "/color-style"),
      XFCONF_BACKDROP_LIST_PATH }

\* The keys xfce4-desktop keeps for the monitors mons with count workspaces.
RECURSIVE WorkspaceKeys(_, _)
WorkspaceKeys(monitor, count) ==
    IF count = 0 THEN << >>
    ELSE WorkspaceKeys(monitor, count - 1)
         \o << Key(monitor, Dec(count - 1), "/color-style"),
               Key(monitor, Dec(count - 1), "/last-image") >>

RECURSIVE StoreOf(_, _)
StoreOf(mons, count) ==
    IF mons = << >> THEN << >>
    ELSE StoreOf(Tail(mons), count) \o WorkspaceKeys(Head(mons), count)

\* The object new() returns for such a store.
Topologies ==
    { [monitors |-> MonsSet(StoreOf(mons, count)),
       workspace_count |->
           WorkspaceCount(MonsSet(StoreOf(mons, count))[1], StoreOf(mons, count))] :
      mons \in { << << "A" >> >>, << << "A" >>, << "B" >> >> },
      count \in 1..MaxWorkspaces }

AllKeyReplies ==
    { Err("DBusError"), Err("NoData"),
      Ok(StoreOf(<< << "A" >>, << "B" >> >>, 2)),
      Ok(StoreOf(<< << "B" >>, << "A" >> >>, 2)) }
    \cup { Ok(keys) : keys \in { v \in SeqsUpTo(KeyUniverse, MaxKeys) : Injective(v) } }

MainKeyReplies ==
    { Err("DBusError"), Err("NoData"), Ok(<< XFCONF_BACKDROP_LIST_PATH >>),
      Ok(StoreOf(<< << "B" >> >>, 1)),
      Ok(StoreOf(<< << "+" >> >>, 1)),
      Ok(StoreOf(<< << "(" >> >>, 1)),
      Ok(StoreOf(<< << "A" >>, << "B" >> >>, MaxWorkspaces)) }

AllModeReplies ==
    { ReplyErr, ReplyEmpty, ReplyStr, ReplyInt(1), ReplyBool(TRUE),
      ReplyBool(FALSE) }
AllNumReplies ==
    { ReplyErr, ReplyEmpty, ReplyStr, ReplyBool(TRUE), ReplyBool(FALSE) }
    \cup { ReplyInt(n) : n \in (-1)..MaxNum }

MainModeReplies == { ReplyErr, ReplyBool(TRUE), ReplyBool(FALSE) }
MainNumReplies == { ReplyInt(1), ReplyInt(MaxNum), ReplyStr }

\* Command lines.
NoArgs ==
    [bad |-> FALSE, h |-> FALSE, q |-> FALSE, c |-> FALSE, m |-> FALSE,
     r |-> FALSE, s |-> OptAbsent, l |-> OptAbsent, free |-> << >>]

AllArgs ==
    [bad : {FALSE}, h : BOOLEAN, q : BOOLEAN, c : BOOLEAN, m : BOOLEAN,
     r : BOOLEAN,
     s : { OptAbsent, OptFlag, Opt(<< "1" >>), Opt(<< "a" >>), Opt(<< "7" >>),
           Opt(<< "-", "1" >>), Opt(<< "-", "2" >>), Opt(<< "+", "0", "1" >>),
           Opt(I64MaxMag), Opt(I64MinMag) },
     l : { OptAbsent, Opt(<< "l" >>) },
     free : { << >>, << << "a", ":" >>, << "b" >> >> }]

Given(a) ==
    { o \in { "h", "q", "c", "m", "r" } : a[o] }
    \cup (IF a.s.present THEN { "s" } ELSE {})
    \cup (IF a.l.present THEN { "l" } ELSE {})
    \cup (IF a.free # << >> THEN { "free" } ELSE {})

\* Up to two options together, and -q with all the others.
MainArgs ==
    { a \in AllArgs : Cardinality(Given(a)) <= 2
                      \/ (a.q /\ Cardinality(Given(a)) >= 7) }
    \cup { [NoArgs EXCEPT !.bad = TRUE, !.q = TRUE] }

\* The list file k is the one saved so far, l the one given with -l.
KLines == << << "#", "a" >>, << " ", "a", " " >>, << >>, << "b" >> >>
LLines == << << "b" >>, << "#" >> >>

MainFiles ==
    { [n \in { << "k" >>, << "l" >> } |->
         IF n = << "k" >> THEN File(TRUE, TRUE, KLines) ELSE f] :
      f \in { NoFile, File(TRUE, FALSE, LLines), File(TRUE, TRUE, LLines) } }

MainFs == { {}, { << "b" >> }, { << "a" >>, << "b" >> } }

(***************************************************************************)
(* Specifications                                                          *)
(***************************************************************************)

\* The fields of XFCEDesktop as new() first sets them.
DesktopNew ==
    /\ monitors = << >>
    /\ workspace_count = 0
    /\ single_mode = TRUE
    /\ single_workspace = 0

RefreshIdle ==
    /\ prop_keys = << >>
    /\ m_sws_mode = ReplyEmpty
    /\ m_sws_num = ReplyEmpty
    /\ refresh_result = None

PickIdle ==
    /\ imgs = << >>
    /\ lsize = 0
    /\ probes = << >>
    /\ pick_result = None
    /\ pick_ret = "done"

OthersIdle ==
    /\ rot_wsps = << >>
    /\ rot_m = 1
    /\ selections = << >>
    /\ rot_result = None
    /\ set_list_result = None
    /\ imgpairs = << >>
    /\ img_i = 1
    /\ q_m = 1
    /\ q_w = 0
    /\ calls = << >>
    /\ outcome = "running"

\* The whole program: main from its first line.
Init ==
    /\ pc = "connect"
    /\ args \in MainArgs
    /\ fs \in MainFs
    /\ files \in MainFiles
    /\ list_prop \in { NotSaved, Saved(<< "k" >>) }
    /\ image_names = << >>
    /\ DesktopNew /\ RefreshIdle /\ PickIdle /\ OthersIdle

Next ==
    \/ NewConnection
    \/ RefreshMonitorsAndWorkspaces(MainKeyReplies)
    \/ NewRefreshSingle(MainModeReplies, MainNumReplies)
    \/ Main
    \/ DoQuery \/ DoQueryGet \/ DoQueryNextMonitor \/ DoQueryDone
    \/ SetModeWriteMode \/ SetModeWriteNumber
    \/ SetModeRefresh(MainModeReplies, MainNumReplies)
    \/ DoSetList \/ DoSetListSet
    \/ DoSetImg \/ DoSetImgWrite \/ DoSetImgDone
    \/ RotateFromSaved \/ RotateBackgroundPick \/ RotateBackgroundSet
    \/ RotateBackgroundOk \/ RotateFromSavedOk
    \/ PickImageProbe \/ PickImageNoImage

Spec == Init /\ [][Next]_vars

\* pick_image alone, for every list of names and every file system.
PickImage ==
    /\ pc = "pick_image"
    /\ PickImageEnter(image_names, "done")
    /\ UNCHANGED << outcome, args, desktop, refreshv, envv, listv, rotv,
                    setimgv, queryv, calls >>

InitPick ==
    /\ pc = "pick_image"
    /\ args = NoArgs
    /\ image_names \in SeqsUpTo(ImagePaths, MaxNames)
    /\ fs \in SUBSET (ImagePaths \ { << >> })
    /\ files = << >>
    /\ list_prop = NotSaved
    /\ DesktopNew /\ RefreshIdle /\ PickIdle /\ OthersIdle

NextPick == PickImage \/ PickImageProbe \/ PickImageNoImage

SpecPick == InitPick /\ [][NextPick]_vars

\* new() alone, for every reply of the configuration service.
InitNew ==
    /\ pc = "connect"
    /\ args = NoArgs
    /\ fs = {}
    /\ files = << >>
    /\ list_prop = NotSaved
    /\ image_names = << >>
    /\ DesktopNew /\ RefreshIdle /\ PickIdle /\ OthersIdle

NextNew ==
    \/ NewConnection
    \/ RefreshMonitorsAndWorkspaces(AllKeyReplies)
    \/ NewRefreshSingle(AllModeReplies, AllNumReplies)

SpecNew == InitNew /\ [][NextNew]_vars

\* main with -s or -m, for every pair of replies at each call of
\* refresh_single_workspace_info: in new(), and in do_set_backdrop_mode
\* before its rotation.
ModeArgs ==
    { [NoArgs EXCEPT !.s = s, !.m = m, !.c = c] :
        s \in { OptAbsent, OptFlag, Opt(<< "1" >>) }, m \in BOOLEAN, c \in BOOLEAN }

ModeFiles == [n \in { << "k" >> } |-> File(TRUE, TRUE, KLines)]

InitMode ==
    /\ pc = "connect"
    /\ args \in { a \in ModeArgs : a.s.present # a.m }
    /\ fs \in { {}, { << "b" >> } }
    /\ files = ModeFiles
    /\ list_prop \in { NotSaved, Saved(<< "k" >>) }
    /\ image_names = << >>
    /\ DesktopNew /\ RefreshIdle /\ PickIdle /\ OthersIdle

NextMode ==
    \/ NewConnection
    \/ RefreshMonitorsAndWorkspaces(MainKeyReplies)
    \/ NewRefreshSingle(AllModeReplies, AllNumReplies)
    \/ Main
    \/ SetModeWriteMode \/ SetModeWriteNumber
    \/ SetModeRefresh(AllModeReplies, AllNumReplies)
    \/ RotateFromSaved \/ RotateBackgroundPick \/ RotateBackgroundSet
    \/ RotateBackgroundOk \/ RotateFromSavedOk
    \/ PickImageProbe \/ PickImageNoImage

SpecMode == InitMode /\ [][NextMode]_vars

\* do_setimg alone, for every object new() returns and every image argument.
ArgChars == { "a", "b", ":" }

InitSetImg ==
    /\ pc = "setimg"
    /\ \E t \in Topologies :
        /\ monitors = t.monitors
        /\ workspace_count = t.workspace_count
    /\ single_mode = TRUE
    /\ single_workspace = 0
    /\ \E str \in SeqsUpTo(ArgChars, MaxLen), repeat \in BOOLEAN :
        args = [NoArgs EXCEPT !.free = << str >>, !.r = repeat]
    /\ fs = {}
    /\ files = << >>
    /\ list_prop = NotSaved
    /\ image_names = << >>
    /\ RefreshIdle /\ PickIdle /\ OthersIdle

NextSetImg == DoSetImg \/ DoSetImgWrite \/ DoSetImgDone

SpecSetImg == InitSetImg /\ [][NextSetImg]_vars

(***************************************************************************)
(* Properties of pick_image (SpecPick)                                     *)
(***************************************************************************)

Probed == { probes[i].path : i \in 1..Len(probes) }

PickReturned == pc = "done" /\ pick_result # None

\* C2: when some candidate exists, pick_image returns Ok with an element of
\* its input that exists and whose probe in this call succeeded, and that no
\* probe of this call found missing.
C2_PickReturnsExisting ==
    (PickReturned /\ \E p \in Range(image_names) : Metadata(p)) =>
        /\ pick_result.ok
        /\ pick_result.val \in Range(image_names)
        /\ pick_result.val \in fs
        /\ \E i \in 1..Len(probes) :
               probes[i] = [path |-> pick_result.val, found |-> TRUE]
        /\ \A i \in 1..Len(probes) :
               probes[i].path = pick_result.val => probes[i].found

\* A call that returned an existing path after two candidates were found missing.
C2_Witness ==
    /\ PickReturned
    /\ pick_result.ok
    /\ Len(probes) = 3
    /\ ~probes[1].found /\ ~probes[2].found
    /\ pick_result.val = probes[3].path

\* C3: when no candidate exists, every probe fails, no candidate is probed
\* twice, the probed and the remaining candidates are together the distinct
\* candidates (so each probe leaves one candidate fewer), and the call ends
\* with NoImage once each distinct candidate was probed.
C3_NoImageAfterEachOnce ==
    (pc \in { "pick_loop", "done" } /\ \A p \in Range(image_names) : ~Metadata(p)) =>
        /\ \A i \in 1..Len(probes) : ~probes[i].found
        /\ \A i, j \in 1..Len(probes) : probes[i].path = probes[j].path => i = j
        /\ Probed \cup Range(imgs) = Range(image_names)
        /\ Probed \cap Range(imgs) = {}
        /\ Len(probes) + Len(imgs) = Cardinality(Range(image_names))
        /\ lsize = Len(imgs)
        /\ pc = "done" =>
              /\ pick_result = Err("NoImage")
              /\ Probed = Range(image_names)
              /\ Len(probes) = Cardinality(Range(image_names))

\* A call on three names, two of them equal and none existing, that ended
\* with NoImage after two probes.
C3_Witness ==
    /\ PickReturned
    /\ pick_result = Err("NoImage")
    /\ Len(image_names) = 3
    /\ Cardinality(Range(image_names)) = 2
    /\ Len(probes) = 2

(***************************************************************************)
(* Properties of do_setimg (SpecSetImg)                                    *)
(***************************************************************************)

\* The canonical slots: monitors in ascending order, for each the workspace
\* indices in ascending order.  Slot i, from 1, is monitor SlotMonitor(i) at
\* workspace index SlotWorkspace(i).
SlotCount == Len(monitors) * workspace_count
SlotMonitor(i) == monitors[((i - 1) \div workspace_count) + 1]
SlotWorkspace(i) == (i - 1) % workspace_count
SlotPath(i) == BackdropPath(SlotMonitor(i), Dec(SlotWorkspace(i)))

MonitorsAscending ==
    \A i \in 1..(Len(monitors) - 1) : StrLess(monitors[i], monitors[i + 1])

\* The tokens of the image arguments.
Tokens == Split(Join(args.free))

\* The writes of an image sent to the configuration service, answered or not.
WritesTo(path) ==
    { n \in 1..Len(calls) : calls[n].method = "SetProperty" /\ calls[n].path = path }

IsSlotWrite(call) ==
    call.method = "SetProperty" /\ \E i \in 1..SlotCount : call.path = SlotPath(i)

\* C4: without repeat, when do_setimg is done, slot i was written once, with
\* tokens[i], if i <= min(len(tokens), len(slots)) and tokens[i] is not
\* empty, and was not written otherwise; nothing else was written.
C4_AssignNoRepeat ==
    (pc = "done" /\ ~args.r) =>
        /\ MonitorsAscending
        /\ \A n \in 1..Len(calls) : IsSlotWrite(calls[n])
        /\ \A i \in 1..SlotCount :
              IF i <= Min(Len(Tokens), SlotCount) /\ Tokens[i] # << >>
              THEN /\ Cardinality(WritesTo(SlotPath(i))) = 1
                   /\ \A n \in WritesTo(SlotPath(i)) : calls[n].value = Tokens[i]
              ELSE WritesTo(SlotPath(i)) = {}

\* The tokens a, empty, b, empty on the slots (A,0), (A,1), (B,0), (B,1):
\* (A,0) and (B,0) are written, with a and b.
C4_Witness ==
    /\ pc = "done"
    /\ ~args.r
    /\ args.free = << << "a", ":", ":", "b", ":" >> >>
    /\ monitors = << << "A" >>, << "B" >> >>
    /\ workspace_count = 2
    /\ Len(calls) = 2
    /\ calls[1].path = BackdropPath(<< "A" >>, << "0" >>)
    /\ calls[1].value = << "a" >>
    /\ calls[2].path = BackdropPath(<< "B" >>, << "0" >>)
    /\ calls[2].value = << "b" >>

\* C5: with repeat, when do_setimg is done, every slot i whose token
\* tokens[i mod len(tokens)] is not empty was written once, with that token,
\* and the other slots were not written; nothing else was written.
C5_AssignRepeat ==
    (pc = "done" /\ args.r) =>
        /\ \A n \in 1..Len(calls) : IsSlotWrite(calls[n])
        /\ \A i \in 1..SlotCount :
              LET token == Tokens[((i - 1) % Len(Tokens)) + 1] IN
              IF token # << >>
              THEN /\ Cardinality(WritesTo(SlotPath(i))) = 1
                   /\ \A n \in WritesTo(SlotPath(i)) : calls[n].value = token
              ELSE WritesTo(SlotPath(i)) = {}

\* The tokens a, empty, b repeated over four slots: (A,0), (B,0) and (B,1)
\* are written, with a, b and a again.
C5_Witness ==
    /\ pc = "done"
    /\ args.r
    /\ args.free = << << "a", ":", ":", "b" >> >>
    /\ monitors = << << "A" >>, << "B" >> >>
    /\ workspace_count = 2
    /\ Len(calls) = 3
    /\ calls[1].path = BackdropPath(<< "A" >>, << "0" >>)
    /\ calls[1].value = << "a" >>
    /\ calls[2].path = BackdropPath(<< "B" >>, << "0" >>)
    /\ calls[2].value = << "b" >>
    /\ calls[3].path = BackdropPath(<< "B" >>, << "1" >>)
    /\ calls[3].value = << "a" >>

(***************************************************************************)
(* Properties of refresh_single_workspace_info (SpecMode)                  *)
(***************************************************************************)

\* refresh_single_workspace_info was called and has returned.
SingleRefreshed ==
    \E n \in 1..Len(calls) : calls[n].path = XFCONF_SINGLE_WORKSPACE_MODE

CallFailed(reply) == reply.kind = "err"
WrongType(reply) == reply.kind = "str"

\* C7 as claimed: a failed lookup, by an error of the call or by a value of
\* the wrong type, gives Ok and Single(0).
C7_AsClaimed ==
    (SingleRefreshed
     /\ (\/ CallFailed(m_sws_mode) \/ CallFailed(m_sws_num)
         \/ WrongType(m_sws_mode) \/ WrongType(m_sws_num))) =>
        /\ refresh_result.ok
        /\ single_mode
        /\ single_workspace = 0

\* A step that is a call of refresh_single_workspace_info, in new() or in
\* do_set_backdrop_mode.
SingleRefreshStep ==
    /\ pc \in { "new_single", "setmode_refresh" }
    /\ pc' # pc

\* The number a reply stands for when read as an integer: the integer, or 1
\* and 0 for a boolean.
NumberRead(reply) ==
    IF reply.kind = "bool" THEN (IF reply.b THEN 1 ELSE 0) ELSE reply.n

\* C7, amended: at each call of refresh_single_workspace_info, when one of
\* the two calls fails the refresh returns Ok with Single(0); when both are
\* answered, the mode with a boolean and the number with an integer or a
\* boolean, it returns Ok with the boolean and the number read, a negative
\* one as 0; when both are answered and a value is missing or of another
\* type it returns Err(NoData) and leaves the mode and the number as they
\* were before the call, which in new() makes main panic.
C7_ModeResolution ==
    [][SingleRefreshStep =>
        IF CallFailed(m_sws_mode') \/ CallFailed(m_sws_num')
        THEN refresh_result'.ok /\ single_mode' /\ single_workspace' = 0
        ELSE IF m_sws_mode'.kind = "bool" /\ m_sws_num'.kind \in { "int", "bool" }
        THEN /\ refresh_result'.ok
             /\ single_mode' = m_sws_mode'.b
             /\ single_workspace' >= 0
             /\ single_workspace' = IF NumberRead(m_sws_num') < 0 THEN 0
                                    ELSE NumberRead(m_sws_num')
        ELSE /\ refresh_result' = Err("NoData")
             /\ single_mode' = single_mode
             /\ single_workspace' = single_workspace
             /\ pc = "new_single" => outcome' = "panic"]_vars

\* new() set per-workspace mode and number 1; the refresh of
\* do_set_backdrop_mode then got a boolean for the mode and a string for the
\* number: NoData, and the mode and the number are still those of new().
C7_Witness ==
    /\ pc = "rotate"
    /\ m_sws_mode = ReplyBool(TRUE)
    /\ m_sws_num = ReplyStr
    /\ refresh_result = Err("NoData")
    /\ ~single_mode
    /\ single_workspace = 1

(***************************************************************************)
(* Properties of new() (SpecNew)                                           *)
(***************************************************************************)

\* refresh_monitors_and_workspaces got the keys prop_keys and has returned.
MonitorsRefreshed ==
    /\ calls # << >>
    /\ calls[1].ok
    /\ refresh_result # Err("NoData")

Captured == { MonCapture(prop_keys[i]) :
                 i \in { i \in 1..Len(prop_keys) : MonIsMatch(prop_keys[i]) } }

\* C8 as claimed: after refresh_monitors_and_workspaces got the keys, when
\* some key matches the pattern the monitors are strictly ascending (so
\* without repeats) and are exactly the captured names, whatever the order
\* of the keys and whatever the names are; when no key matches, the result
\* is NoDesktopInfo and monitors and workspace_count are as before the call.
C8_Monitors ==
    MonitorsRefreshed =>
        IF Captured # {}
        THEN /\ refresh_result # Err("NoDesktopInfo")
             /\ \A i \in 1..(Len(monitors) - 1) : StrLess(monitors[i], monitors[i + 1])
             /\ Range(monitors) = Captured
             /\ Len(monitors) = Cardinality(Captured)
        ELSE /\ refresh_result = Err("NoDesktopInfo")
             /\ monitors = << >>
             /\ workspace_count = 0


(***************************************************************************)
(* Properties of the program (Spec)                                        *)
(***************************************************************************)

\* The slots of a rotation: the monitors at the single workspace, or at
\* every workspace index.
ActiveWorkspaces ==
    IF single_mode THEN { single_workspace } ELSE 0..(workspace_count - 1)

ActiveSlots ==
    { [m |-> m, w |-> Dec(w)] : m \in Range(monitors), w \in ActiveWorkspaces }

SelectionsOf(slot) ==
    { n \in 1..Len(selections) : selections[n].m = slot.m /\ selections[n].w = slot.w }

SelectionFailed(sel) == ~sel.picked.ok \/ ~sel.written

IsBackdropWrite(call) ==
    /\ call.method = "SetProperty"
    /\ call.path[Len(call.path)] = "/last-image"

BackdropWrites == SelectSeq(calls, IsBackdropWrite)

\* C1 as claimed: when a rotation has ended and the selection or the write
\* of a slot failed in it, every slot of the rotation had its selection.
C1_ContinueOnError ==
    (pc = "done" /\ \E n \in 1..Len(selections) : SelectionFailed(selections[n])) =>
        \A slot \in ActiveSlots : SelectionsOf(slot) # {}

\* C6: when rotate_from_saved returns Ok, each slot of the monitors at the
\* active workspaces had one selection, which succeeded, and one write, of
\* the image selected for it, and there was no selection and no image write
\* for anything else.
C6_RotationTargets ==
    rot_result.ok =>
        /\ \A slot \in ActiveSlots : Cardinality(SelectionsOf(slot)) = 1
        /\ Len(selections) = Cardinality(ActiveSlots)
        /\ Len(BackdropWrites) = Len(selections)
        /\ \A n \in 1..Len(selections) :
              /\ [m |-> selections[n].m, w |-> selections[n].w] \in ActiveSlots
              /\ selections[n].picked.ok
              /\ selections[n].written
              /\ BackdropWrites[n] =
                     SetBackgroundCall(selections[n].m, selections[n].w,
                                       selections[n].picked.val, TRUE)

\* A rotation in single mode at workspace 1 of the monitors A and B that
\* gave them different images, and a rotation of all four slots.
C6_Witness ==
    /\ rot_result.ok
    /\ monitors = << << "A" >>, << "B" >> >>
    /\ workspace_count = 2
    /\ single_mode
    /\ single_workspace = 1
    /\ Len(selections) = 2
    /\ selections[1].picked.val # selections[2].picked.val
    /\ BackdropWrites[1].path = BackdropPath(<< "A" >>, << "1" >>)
    /\ BackdropWrites[2].path = BackdropPath(<< "B" >>, << "1" >>)

\* The list file given with -l can be read and names an existing image.
ListIsValid ==
    /\ FileOf(args.l.val).exists
    /\ FileOf(args.l.val).readable
    /\ \E name \in Range(ImageNames(FileOf(args.l.val).lines)) : Metadata(name)

IsWrite(call) == call.method = "SetProperty"

RotationStarted ==
    \/ pc \in { "rotate", "rotate_background", "rotate_set" }
    \/ rot_result # None
    \/ selections # << >>

\* C9: in a run that sets the list file, the list path is written only when
\* the file can be read and names an existing image; when it cannot or does
\* not, nothing is written, no rotation starts, and when main returns
\* set_list has returned an Err.
C9_SetListValidates ==
    Dispatch = "setlist" =>
        /\ (\E n \in 1..Len(calls) :
               IsWrite(calls[n]) /\ calls[n].path = XFCONF_BACKDROP_LIST_PATH)
           => ListIsValid
        /\ ~ListIsValid =>
              /\ \A n \in 1..Len(calls) : ~IsWrite(calls[n])
              /\ ~RotationStarted
              /\ list_prop # Saved(args.l.val)
              /\ outcome = "exit" => (~set_list_result.ok /\ set_list_result # None)

\* -l with -c and a file that is there but cannot be read: the run has ended
\* with the Err of set_list.
C9_Witness ==
    /\ Dispatch = "setlist"
    /\ args.c
    /\ FileOf(args.l.val).exists
    /\ ~FileOf(args.l.val).readable
    /\ pc = "done"
    /\ set_list_result = Err("IOError")

\* C10: in a run with -q no SetProperty call is ever sent.
C10_QueryReadsOnly ==
    args.q => \A n \in 1..Len(calls) : ~IsWrite(calls[n])

\* A query with -c, given together, that has read the image of every slot of
\* two monitors and two workspaces and has ended.
C10_Witness ==
    /\ args.q /\ args.c /\ ~args.h
    /\ pc = "done"
    /\ outcome = "exit"
    /\ Len(monitors) = 2
    /\ workspace_count = 2
    /\ Cardinality({ n \in 1..Len(calls) :
                       /\ calls[n].method = "GetProperty"
                       /\ calls[n].path[Len(calls[n].path)] = "/last-image" }) = 4

\* The slots of the discovered grid: each monitor at each workspace index
\* from 0 to workspace_count - 1.
GridPaths ==
    { BackdropPath(m, Dec(w)) : m \in Range(monitors), w \in 0..(workspace_count - 1) }

\* C11 as claimed: in a run that rotates, every image write goes to a slot
\* of the grid, whatever single-workspace-number the service returned.
C11_RotationWritesInGrid ==
    Dispatch # "setimg" =>
        \A n \in 1..Len(calls) :
            IsBackdropWrite(calls[n]) => calls[n].path \in GridPaths

====
